---- MODULE Spec2Model ----
(***************************************************************************)
(* Model of the Netherworld EXP tracker (scripts/exp_tracker.py).          *)
(*                                                                         *)
(* Every invocation of the tracker is a separate operating-system process  *)
(* running main(); the processes share the data directory only: the lock   *)
(* marker data/.lock_active and the three CSV logs.  The test of the       *)
(* marker, its read, its write and its deletion are actions of their own,  *)
(* because other invocations can run between them.  Past the lock one      *)
(* action is one phase of the session: the first sample, the wait, the     *)
(* second sample with the rows, the persistence, the except branch.        *)
(* ensure_files is one step of Setup.  An append either writes its row or  *)
(* raises without writing.  A log entry carries, next to its CSV row, the  *)
(* invocation that appended it (by), which no file holds.                  *)
(*                                                                         *)
(* Time is counted in seconds.  Experience percentages are integers in     *)
(* units of 1/100000 percent, so that the four-decimal rendering of        *)
(* append_results has something to round.  An optional value (None in the  *)
(* code, the empty CSV field in a log) is the empty sequence, a present    *)
(* value v is <<v>>.                                                       *)
(***************************************************************************)
EXTENDS Integers, Sequences, FiniteSets, TLC

\* ------------------------------------------------------------------ bounds
NumProcs == 2
MaxTicks == 3

Procs == 1..NumProcs

\* ------------------------------------------------------- program constants
StaleMinutes == 90
StaleSeconds == StaleMinutes * 60
MalformedHours == 2
DefaultSleep == 3600
TickSeconds == StaleSeconds \div 3

Max(a, b) == IF a >= b THEN a ELSE b

\* ------------------------------------------------------------ time formats
now_berlin(clk) == clk
format_ts(dt) == dt \div 60
run_id_from_start(ts) == ts
isoformat(dt) == dt

\* ------------------------------------------------------------ lock marker
\* The marker file: absent, or its text already split at "|".  A part is
\* the text of one field: iso says whether datetime.fromisoformat accepts
\* it, val is the instant it denotes (or the number of a run id).
Part(iso, val) == [iso |-> iso, val |-> val]
NoFile == [exists |-> FALSE, parts |-> <<>>]
LockFile(parts) == [exists |-> TRUE, parts |-> parts]
EmptyContent == <<Part(FALSE, 0)>>
NoSepContent == <<Part(FALSE, -1)>>
BadTsContent == <<Part(FALSE, -1), Part(FALSE, -2)>>
MarkerContent(run_id, started_dt) ==
    <<Part(FALSE, run_id), Part(TRUE, isoformat(started_dt))>>
LeftoverContent == MarkerContent(run_id_from_start(0 - TickSeconds), 0 - TickSeconds)
InitLocks == {NoFile, LockFile(LeftoverContent), LockFile(EmptyContent),
              LockFile(NoSepContent), LockFile(BadTsContent)}

\* ts_old of main(): the timestamp read from the marker.  read_text of a
\* marker that vanished after exists(), and fromisoformat of a bad text,
\* raise, and the except branch makes the marker two hours old.
TsOld(file, started_dt) ==
    IF ~file.exists THEN started_dt - MalformedHours * 3600
    ELSE IF Len(file.parts) > 1
         THEN IF file.parts[2].iso THEN file.parts[2].val
              ELSE started_dt - MalformedHours * 3600
         ELSE started_dt

IsFreshSeconds(started_dt, ts_old) == started_dt - ts_old < StaleMinutes
IsFreshInclusive(started_dt, ts_old) == started_dt - ts_old <= StaleSeconds
IsFresh(started_dt, ts_old) == started_dt - ts_old < StaleSeconds

\* ------------------------------------------------------------- leaderboard
Characters == <<"Alice", "Bob">>
Args == [dungeon |-> "Crypt", stage |-> 1, difficulty |-> "hard",
         party_type |-> "duo", note |-> "", spot |-> "gate"]
SleepArgs == {0, DefaultSleep}

CharSnapshot(c, l, e) == [character |-> c, level |-> l, exp_pct |-> e]
Board1 == ("Alice" :> CharSnapshot("Alice", 10, 5000000))
          @@ ("Zed" :> CharSnapshot("Zed", 3, 8000))
Board2 == ("Alice" :> CharSnapshot("Alice", 11, 525003))
          @@ ("Bob" :> CharSnapshot("Bob", 8, 1000000))
Board3 == ("Zed" :> CharSnapshot("Zed", 3, 9000))
Boards == {Board1, Board2, Board3}
EmptyMap == [c \in {} |-> CharSnapshot("", 0, 0)]

Restrict(f, S) == [x \in (DOMAIN f) \cap S |-> f[x]]
Range(s) == {s[i] : i \in DOMAIN s}

VARIABLES pc, started, seen, wake, snap0, start_map, snap1, rows, err, exit,
          outcome, gets, acquired, unlinked,
          clock, lock, initialised, runs, results, errors, world, faults,
          fetcher, parser, reporter

procVars == <<pc, started, seen, wake, snap0, start_map, snap1, rows, err, exit,
              outcome, gets, acquired, unlinked>>
logVars == <<runs, results, errors>>
\* One call of fetch_html_with_retries, of parse_netherworld and of the
\* monthly reporter, each followed on its own.
unitVars == <<fetcher, parser, reporter>>
mainVars == <<pc, started, seen, wake, snap0, start_map, snap1, rows, err, exit,
              outcome, gets, acquired, unlinked,
              clock, lock, initialised, runs, results, errors, world, faults>>
vars == <<pc, started, seen, wake, snap0, start_map, snap1, rows, err, exit,
          outcome, gets, acquired, unlinked,
          clock, lock, initialised, runs, results, errors, world, faults,
          fetcher, parser, reporter>>

\* The state before any invocation: nothing has run, the data directory
\* may hold the marker of an invocation that was killed, or a damaged one.
\* invoked is the set of invocations somebody will start; world is the set
\* of boards the ranking page can show during the run; faults is the set of
\* failures the network and the file system can produce during the run.
InitWith(invoked, boards, failures) ==
    /\ pc = [p \in Procs |-> IF p \in invoked THEN "idle" ELSE "off"]
    /\ started = [p \in Procs |-> 0]
    /\ seen = [p \in Procs |-> NoFile]
    /\ wake = [p \in Procs |-> 0]
    /\ snap0 = [p \in Procs |-> EmptyMap]
    /\ start_map = [p \in Procs |-> EmptyMap]
    /\ snap1 = [p \in Procs |-> EmptyMap]
    /\ rows = [p \in Procs |-> <<>>]
    /\ err = [p \in Procs |-> ""]
    /\ exit = [p \in Procs |-> -1]
    /\ outcome = [p \in Procs |-> ""]
    /\ gets = [p \in Procs |-> 0]
    /\ acquired = [p \in Procs |-> FALSE]
    /\ unlinked = [p \in Procs |-> FALSE]
    /\ clock = 0
    /\ lock \in InitLocks
    /\ initialised \in BOOLEAN
    /\ runs = <<>>
    /\ results = <<>>
    /\ errors = <<>>
    /\ world = boards
    /\ faults = failures

Off == [pc |-> "off"]
UnitsOff == fetcher = Off /\ parser = Off /\ reporter = Off
\* main() is not invoked: the data directory stays empty.
MainOff == InitWith({}, {Board2}, {}) /\ lock = NoFile /\ ~initialised

Failures == {"NetworkExhausted", "StructureNotFound", "IOError"}
CanFail(e) == e \in faults

\* Concurrent invocations; one board, the network may fail.
Init == InitWith(Procs, {Board2}, {"NetworkExhausted"}) /\ UnitsOff

\* One invocation; every board and every failure.
InitSession == InitWith({1}, Boards, Failures) /\ UnitsOff

\* ------------------------------------------------------------------- store
Entry(p, row) == [by |-> p, row |-> row]

ErrorRow(run_id, character, message, now) ==
    <<run_id, format_ts(now), <<character, " Fehler ", message>>>>

Round4(x) == IF x >= 0 THEN (x + 5) \div 10 ELSE 0 - ((5 - x) \div 10)
fmt(x) == IF x = <<>> THEN <<>> ELSE <<Round4(x[1])>>
ResultRow(run_id, server, r) ==
    <<run_id, server, r[1], r[2], fmt(r[3]), r[4], fmt(r[5]), fmt(r[6])>>

RunRow(run_id, started_at, ended_at, duration, note) ==
    <<run_id, started_at, ended_at, Args.dungeon, Args.stage, Args.difficulty,
      Args.party_type, duration, note, Args.spot>>

RECURSIVE AppendAll(_, _, _)
AppendAll(log, p, rs) ==
    IF rs = <<>> THEN log
    ELSE AppendAll(Append(log, Entry(p, Head(rs))), p, Tail(rs))

\* ------------------------------------------------------------ orchestrator
\* main() up to the lock: ensure_files, validate_dungeon, read_characters
\* and the start timestamp.  An exception of the two checks is not caught,
\* so the interpreter ends the process with status 1.  Invocations are
\* numbered in the order in which they are started.
Setup(p) ==
    /\ pc[p] = "idle"
    /\ \A q \in Procs : q < p => pc[q] # "idle"
    /\ initialised' = TRUE
    /\ \E v \in {"ok", "ValidationError", "ConfigMissing", "ConfigEmpty"} :
          IF v = "ok"
          THEN /\ pc' = [pc EXCEPT ![p] = "lockExists"]
               /\ started' = [started EXCEPT ![p] = now_berlin(clock)]
               /\ UNCHANGED <<exit, outcome>>
          ELSE /\ pc' = [pc EXCEPT ![p] = "done"]
               /\ exit' = [exit EXCEPT ![p] = 1]
               /\ outcome' = [outcome EXCEPT ![p] = v]
               /\ UNCHANGED started
    /\ UNCHANGED <<seen, wake, snap0, start_map, snap1, rows, err, gets, acquired,
                   unlinked, clock, lock, runs, results, errors, world, faults, unitVars>>

\* lock_file.exists()
LockExists(p) ==
    /\ pc[p] = "lockExists"
    /\ pc' = [pc EXCEPT ![p] = IF lock.exists THEN "lockRead" ELSE "lockWrite"]
    /\ UNCHANGED <<started, seen, wake, snap0, start_map, snap1, rows, err, exit,
                   outcome, gets, acquired, unlinked,
                   clock, lock, initialised, runs, results, errors, world, faults, unitVars>>

\* read_text, the age test and sys.exit(1)
LockRead(p) ==
    /\ pc[p] = "lockRead"
    /\ seen' = [seen EXCEPT ![p] = lock]
    /\ IF IsFresh(started[p], TsOld(lock, started[p]))
       THEN /\ pc' = [pc EXCEPT ![p] = "done"]
            /\ exit' = [exit EXCEPT ![p] = 1]
            /\ outcome' = [outcome EXCEPT ![p] = "AlreadyRunning"]
       ELSE /\ pc' = [pc EXCEPT ![p] = "lockWrite"]
            /\ UNCHANGED <<exit, outcome>>
    /\ UNCHANGED <<started, wake, snap0, start_map, snap1, rows, err,
                   gets, acquired, unlinked,
                   clock, lock, initialised, runs, results, errors, world, faults, unitVars>>

\* lock_file.write_text(f"{run_id}|{started_dt.isoformat()}")
LockWrite(p) ==
    /\ pc[p] = "lockWrite"
    /\ lock' = LockFile(MarkerContent(run_id_from_start(started[p]), started[p]))
    /\ acquired' = [acquired EXCEPT ![p] = TRUE]
    /\ pc' = [pc EXCEPT ![p] = "sample0"]
    /\ UNCHANGED <<started, seen, wake, snap0, start_map, snap1, rows, err, exit,
                   outcome, gets, unlinked,
                   clock, initialised, runs, results, errors, world, faults, unitVars>>

\* Leaving the try statement, by its end or by sys.exit in the except
\* branch, runs the outer finally.
AfterTryNoFinally == "done"
AfterTry == "cleanup"

\* A failure raised inside the try block: the except branch runs next.
Raise(p, e) ==
    /\ pc' = [pc EXCEPT ![p] = "handler"]
    /\ err' = [err EXCEPT ![p] = e]

\* The write_error calls of a loop over the tracked characters, in order.
RECURSIVE StartCalls(_, _)
StartCalls(cs, s0) ==
    IF cs = <<>> THEN <<>>
    ELSE (IF Head(cs) \in DOMAIN s0 THEN <<>>
          ELSE <<<<Head(cs), "Name beim ersten Abruf nicht gefunden">>>>)
         \o StartCalls(Tail(cs), s0)

RECURSIVE EndCallsOncePerSide(_, _, _)
EndCallsOncePerSide(cs, sm, s1) ==
    IF cs = <<>> THEN <<>>
    ELSE (IF Head(cs) \in DOMAIN s1 THEN <<>> ELSE <<<<Head(cs), "Kein Endwert">>>>)
         \o EndCallsOncePerSide(Tail(cs), sm, s1)

RECURSIVE EndCalls(_, _, _)
EndCalls(cs, sm, s1) ==
    IF cs = <<>> THEN <<>>
    ELSE (IF Head(cs) \in DOMAIN sm THEN <<>> ELSE <<<<Head(cs), "Kein Startwert">>>>)
         \o (IF Head(cs) \in DOMAIN s1 THEN <<>> ELSE <<<<Head(cs), "Kein Endwert">>>>)
         \o EndCalls(Tail(cs), sm, s1)

\* write_error for the first n calls of a loop.
WriteErrors(p, calls, n) ==
    AppendAll(errors, p,
              [i \in 1..n |-> ErrorRow(run_id_from_start(started[p]),
                                       calls[i][1], calls[i][2], now_berlin(clock))])

BuildRowZeroStart(c, sm, s1) ==
    LET l0 == IF c \in DOMAIN sm THEN <<sm[c].level>> ELSE <<>>
        e0 == IF c \in DOMAIN sm THEN <<sm[c].exp_pct>> ELSE <<>>
        l1 == IF c \in DOMAIN s1 THEN <<s1[c].level>> ELSE <<>>
        e1 == IF c \in DOMAIN s1 THEN <<s1[c].exp_pct>> ELSE <<>>
        g == IF e1 # <<>> THEN <<e1[1] - (IF e0 = <<>> THEN 0 ELSE e0[1])>> ELSE <<>>
    IN <<c, l0, e0, l1, e1, g>>

BuildRowClamped(c, sm, s1) ==
    LET l0 == IF c \in DOMAIN sm THEN <<sm[c].level>> ELSE <<>>
        e0 == IF c \in DOMAIN sm THEN <<sm[c].exp_pct>> ELSE <<>>
        l1 == IF c \in DOMAIN s1 THEN <<s1[c].level>> ELSE <<>>
        e1 == IF c \in DOMAIN s1 THEN <<s1[c].exp_pct>> ELSE <<>>
        g == IF e0 # <<>> /\ e1 # <<>> THEN <<Max(0, e1[1] - e0[1])>> ELSE <<>>
    IN <<c, l0, e0, l1, e1, g>>

\* One tuple of rows (lines 255-263, 268): (c, l0, e0, l1, e1, g)
BuildRow(c, sm, s1) ==
    LET l0 == IF c \in DOMAIN sm THEN <<sm[c].level>> ELSE <<>>
        e0 == IF c \in DOMAIN sm THEN <<sm[c].exp_pct>> ELSE <<>>
        l1 == IF c \in DOMAIN s1 THEN <<s1[c].level>> ELSE <<>>
        e1 == IF c \in DOMAIN s1 THEN <<s1[c].exp_pct>> ELSE <<>>
        g == IF e0 # <<>> /\ e1 # <<>> THEN <<e1[1] - e0[1]>> ELSE <<>>
    IN <<c, l0, e0, l1, e1, g>>

\* Lines 233-246: first fetch and parse, the start values, and the length
\* of the wait.  The fetch ends with the failure of its last attempt, the
\* parse with "table not found", or the parse gives the snapshot of a
\* board.  write_error appends to errors.csv and may raise; then the calls
\* after the failing one are never made.
Sample0(p) ==
    /\ pc[p] = "sample0"
    /\ gets' = [gets EXCEPT ![p] = @ + 1]
    /\ \/ \E e \in faults \ {"IOError"} :
             /\ Raise(p, e)
             /\ UNCHANGED <<snap0, start_map, wake, errors>>
       \/ \E s0 \in world :
             LET calls == StartCalls(Characters, s0) IN
             \E n \in 0..Len(calls), ok \in BOOLEAN, sleep_arg \in SleepArgs :
                /\ ok <=> n = Len(calls)
                /\ ok \/ CanFail("IOError")
                /\ errors' = WriteErrors(p, calls, n)
                /\ snap0' = [snap0 EXCEPT ![p] = s0]
                /\ IF ok
                   THEN /\ start_map' = [start_map EXCEPT ![p] =
                                            Restrict(s0, Range(Characters))]
                        /\ wake' = [wake EXCEPT ![p] = clock + Max(1, sleep_arg)]
                        /\ pc' = [pc EXCEPT ![p] = "wait"]
                        /\ UNCHANGED err
                   ELSE /\ Raise(p, "IOError")
                        /\ UNCHANGED <<start_map, wake>>
    /\ UNCHANGED <<started, seen, snap1, rows, exit, outcome, acquired, unlinked,
                   clock, lock, initialised, runs, results, world, faults, unitVars>>

\* time.sleep(sleep_seconds) returns once the interval has passed.
Wake(p) ==
    /\ pc[p] = "wait"
    /\ clock >= wake[p]
    /\ pc' = [pc EXCEPT ![p] = "sample1"]
    /\ wake' = [wake EXCEPT ![p] = 0]
    /\ UNCHANGED <<started, seen, snap0, start_map, snap1, rows, err,
                   exit, outcome, gets, acquired, unlinked,
                   clock, lock, initialised, runs, results, errors, world, faults, unitVars>>

\* Lines 249-268: second fetch and parse, and one row per character.
Sample1(p) ==
    /\ pc[p] = "sample1"
    /\ gets' = [gets EXCEPT ![p] = @ + 1]
    /\ \/ \E e \in faults \ {"IOError"} :
             /\ Raise(p, e)
             /\ UNCHANGED <<snap1, rows, errors>>
       \/ \E s1 \in world :
             LET calls == EndCalls(Characters, start_map[p], s1) IN
             \E n \in 0..Len(calls), ok \in BOOLEAN :
                /\ ok <=> n = Len(calls)
                /\ ok \/ CanFail("IOError")
                /\ errors' = WriteErrors(p, calls, n)
                /\ snap1' = [snap1 EXCEPT ![p] = s1]
                /\ IF ok
                   THEN /\ rows' = [rows EXCEPT ![p] =
                              [i \in DOMAIN Characters |->
                                  BuildRow(Characters[i], start_map[p], s1)]]
                        /\ pc' = [pc EXCEPT ![p] = "persist"]
                        /\ UNCHANGED err
                   ELSE /\ Raise(p, "IOError")
                        /\ UNCHANGED rows
    /\ UNCHANGED <<started, seen, wake, snap0, start_map, exit, outcome, acquired, unlinked,
                   clock, lock, initialised, runs, results, world, faults, unitVars>>

Duration(p, ended_dt) == (ended_dt - started[p]) \div 60

\* lines 270-277: append_results, append_run, print.  Each of the three
\* may raise; what was appended before stays in its log.
Persist(p) ==
    /\ pc[p] = "persist"
    /\ LET ended_dt == now_berlin(clock)
           run_id == run_id_from_start(started[p])
           withResults == AppendAll(results, p,
                             [i \in DOMAIN rows[p] |->
                                 ResultRow(run_id, "Netherworld", rows[p][i])])
           withRun == Append(runs, Entry(p,
                         RunRow(run_id, format_ts(started[p]), format_ts(ended_dt),
                                Duration(p, ended_dt), <<Args.note>>)))
       IN \E step \in {"append_results", "append_run", "print", "end"} :
             /\ step = "end" \/ CanFail("IOError")
             /\ results' = IF step = "append_results" THEN results ELSE withResults
             /\ runs' = IF step \in {"append_results", "append_run"} THEN runs ELSE withRun
             /\ IF step = "end"
                THEN /\ pc' = [pc EXCEPT ![p] = AfterTry]
                     /\ exit' = [exit EXCEPT ![p] = 0]
                     /\ outcome' = [outcome EXCEPT ![p] = "Lauf abgeschlossen"]
                     /\ UNCHANGED err
                ELSE /\ Raise(p, "IOError")
                     /\ UNCHANGED <<exit, outcome>>
    /\ UNCHANGED <<started, seen, wake, snap0, start_map, snap1, rows,
                   gets, acquired, unlinked,
                   clock, lock, initialised, errors, world, faults, unitVars>>

\* The except branch (lines 278-286): append the failure record, print,
\* sys.exit(2).  append_run may raise: the inner finally still prints and
\* exits with 2.  If the print raises, that exception leaves main instead
\* and the interpreter's status is 1.
Handler(p) ==
    /\ pc[p] = "handler"
    /\ LET ended_dt == now_berlin(clock)
           run_id == run_id_from_start(started[p])
           withRun == Append(runs, Entry(p,
                         RunRow(run_id, format_ts(started[p]), format_ts(ended_dt),
                                Duration(p, ended_dt), <<"Fehler ", err[p]>>)))
       IN \E appended \in BOOLEAN, printed \in BOOLEAN :
             /\ (appended /\ printed) \/ CanFail("IOError")
             /\ runs' = IF appended THEN withRun ELSE runs
             /\ exit' = [exit EXCEPT ![p] = IF printed THEN 2 ELSE 1]
             /\ outcome' = [outcome EXCEPT ![p] = "Fehler aufgetreten"]
    /\ pc' = [pc EXCEPT ![p] = AfterTry]
    /\ UNCHANGED <<started, seen, wake, snap0, start_map, snap1, rows, err,
                   gets, acquired, unlinked,
                   clock, lock, initialised, results, errors, world, faults, unitVars>>

\* The outer finally (lines 287-291): unlink(missing_ok=True), whatever
\* the marker holds; an exception of unlink is swallowed.
Cleanup(p) ==
    /\ pc[p] = "cleanup"
    /\ \E deleted \in BOOLEAN :
          /\ deleted \/ CanFail("IOError")
          /\ lock' = IF deleted THEN NoFile ELSE lock
    /\ unlinked' = [unlinked EXCEPT ![p] = TRUE]
    /\ pc' = [pc EXCEPT ![p] = "done"]
    /\ UNCHANGED <<started, seen, wake, snap0, start_map, snap1, rows, err,
                   exit, outcome, gets, acquired,
                   clock, initialised, runs, results, errors, world, faults, unitVars>>

\* Time passes; it never stops while an invocation sleeps.
Tick ==
    /\ \/ clock < MaxTicks * TickSeconds
       \/ \E p \in Procs : pc[p] = "wait" /\ clock < wake[p]
    /\ clock' = clock + TickSeconds
    /\ UNCHANGED <<procVars, lock, initialised, logVars, world, faults, unitVars>>

Next ==
    \/ Tick
    \/ \E p \in Procs :
          \/ Setup(p) \/ LockExists(p) \/ LockRead(p) \/ LockWrite(p)
          \/ Sample0(p) \/ Wake(p) \/ Sample1(p)
          \/ Persist(p) \/ Handler(p) \/ Cleanup(p)

Spec == Init /\ [][Next]_vars
SessionSpec == InitSession /\ [][Next]_vars

\* A started invocation is an operating-system process of its own: it
\* keeps running, and time keeps passing.  Nothing obliges anybody to
\* start an invocation.
Running(p) ==
    \/ LockExists(p) \/ LockRead(p) \/ LockWrite(p)
    \/ Sample0(p) \/ Wake(p) \/ Sample1(p)
    \/ Persist(p) \/ Handler(p) \/ Cleanup(p)

Fairness == WF_vars(Tick) /\ \A p \in Procs : WF_vars(Running(p))
FairSpec == Spec /\ Fairness
FairSessionSpec == SessionSpec /\ Fairness

\* ------------------------------------------------ fetch_html_with_retries
\* One call fetch_html_with_retries(url, retries, backoff_seconds).  Each
\* GET either delivers the page or raises; failed is the history of the
\* exceptions raised, slept the history of the time.sleep calls.
MaxRetries == 3
DefaultRetries == 3
DefaultBackoff == 3
RetriesArgs == 0..MaxRetries
BackoffArgs == {1, DefaultBackoff}
Exceptions == {"Timeout", "HTTPError"}

FetchInit ==
    /\ MainOff
    /\ parser = Off /\ reporter = Off
    /\ \E n \in RetriesArgs, b \in BackoffArgs :
          fetcher = [pc |-> "loop", retries |-> n, backoff_seconds |-> b,
                     attempt |-> 0, last_exc |-> <<>>, gets |-> 0,
                     failed |-> <<>>, slept |-> <<>>, result |-> <<>>]

AttemptsShort(retries) == 1..(retries - 1)
\* range(1, retries + 1)
Attempts(retries) == 1..retries

SleepsAfterEvery(attempt, retries) == attempt <= retries
\* if attempt < retries
SleepsAfter(attempt, retries) == attempt < retries

\* backoff_seconds * attempt
BackoffDelay(backoff_seconds, attempt) == backoff_seconds * attempt

\* The for statement: the next attempt, or the raise after the loop.
\* raise None is a TypeError.
FetchLoop ==
    /\ fetcher.pc = "loop"
    /\ IF fetcher.attempt + 1 \in Attempts(fetcher.retries)
       THEN fetcher' = [fetcher EXCEPT !.attempt = @ + 1, !.pc = "get"]
       ELSE fetcher' = [fetcher EXCEPT !.pc = "raised",
                           !.result = IF fetcher.last_exc = <<>>
                                      THEN <<"TypeError">>
                                      ELSE fetcher.last_exc]
    /\ UNCHANGED <<mainVars, parser, reporter>>

\* requests.get and raise_for_status of one attempt.
FetchGet ==
    /\ fetcher.pc = "get"
    /\ \/ fetcher' = [fetcher EXCEPT !.gets = @ + 1, !.pc = "returned",
                         !.result = <<"html", fetcher.attempt>>]
       \/ \E e \in Exceptions :
             fetcher' = [fetcher EXCEPT !.gets = @ + 1,
                            !.last_exc = <<e>>,
                            !.failed = Append(@, e),
                            !.pc = IF SleepsAfter(fetcher.attempt, fetcher.retries)
                                   THEN "sleep" ELSE "loop"]
    /\ UNCHANGED <<mainVars, parser, reporter>>

FetchSleep ==
    /\ fetcher.pc = "sleep"
    /\ fetcher' = [fetcher EXCEPT
                      !.slept = Append(@, BackoffDelay(fetcher.backoff_seconds,
                                                       fetcher.attempt)),
                      !.pc = "loop"]
    /\ UNCHANGED <<mainVars, parser, reporter>>

FetchNext == FetchLoop \/ FetchGet \/ FetchSleep
FetchSpec == FetchInit /\ [][FetchNext]_vars

\* -------------------------------------------------------- parse_netherworld
\* A cell text is the sequence of its characters, as get_text(strip=True)
\* returns it; a row is the sequence of its td cells.  The name cell is
\* used whole and is kept as a string.
MaxRows == 2
Digits == <<"0", "1", "2", "3", "4", "5", "6", "7", "8", "9">>
IsDigit(ch) == ch \in Range(Digits)
DigitVal(ch) == (CHOOSE d \in DOMAIN Digits : Digits[d] = ch) - 1

RECURSIVE NatVal(_)
NatVal(t) == IF t = <<>> THEN 0
             ELSE 10 * NatVal(SubSeq(t, 1, Len(t) - 1)) + DigitVal(t[Len(t)])

\* int(level_text): an optional sign and one or more digits.
IsInt(t) ==
    LET d == IF t # <<>> /\ t[1] \in {"+", "-"} THEN Tail(t) ELSE t
    IN  d # <<>> /\ \A i \in DOMAIN d : IsDigit(d[i])
IntVal(t) ==
    IF t[1] = "-" THEN 0 - NatVal(Tail(t))
    ELSE IF t[1] = "+" THEN NatVal(Tail(t)) ELSE NatVal(t)

RECURSIVE RStrip(_)
RStrip(t) == IF t # <<>> /\ t[Len(t)] = " " THEN RStrip(SubSeq(t, 1, Len(t) - 1))
             ELSE t

\* The text in front of the percent sign, or <<>> without a percent sign.
ExpNumber(t) ==
    IF t # <<>> /\ t[Len(t)] = "%" THEN RStrip(SubSeq(t, 1, Len(t) - 1)) ELSE <<>>

\* [0-9]*\.?[0-9]+ : digits and at most one point, ending in a digit.
ExpMatch(t) ==
    LET n == ExpNumber(t) IN
    /\ n # <<>>
    /\ \A i \in DOMAIN n : IsDigit(n[i]) \/ n[i] = "."
    /\ Cardinality({i \in DOMAIN n : n[i] = "."}) <= 1
    /\ IsDigit(n[Len(n)])

\* float(m.group(1)), in units of 1/100000 percent.
RECURSIVE Pow10(_)
Pow10(k) == IF k = 0 THEN 1 ELSE 10 * Pow10(k - 1)
ExpVal(t) ==
    LET n == ExpNumber(t)
        dots == {i \in DOMAIN n : n[i] = "."}
        dot == IF dots = {} THEN Len(n) + 1 ELSE CHOOSE i \in dots : TRUE
        frac == SubSeq(n, dot + 1, Len(n))
    IN  NatVal(SubSeq(n, 1, dot - 1)) * 100000
        + (NatVal(frac) * 100000) \div Pow10(Len(frac))

Tr(name, level_text, exp_text) ==
    <<<<"1">>, name, level_text, <<"g">>, exp_text, <<>> >>
TableRows ==
    { Tr("Alice", <<"1", "0">>, <<"2", "7", ".", "4", "2", "%">>),
      Tr("Alice", <<"1", "1">>, <<".", "0", "8", "%">>),
      Tr("Bob", <<"0">>, <<"5", "%">>),
      Tr("Bob", <<"-", "3">>, <<"1", "2", " ", "%">>),
      Tr("Bob", <<"7">>, <<"1", "0", "0", "%">>),
      Tr("Bob", <<"+", "7">>, <<"2", "5", "0", ".", "5", "%">>),
      Tr("", <<"5">>, <<"1", "%">>),
      Tr("Zed", <<"x">>, <<"1", "%">>),
      Tr("Zed", <<>>, <<"1", "%">>),
      Tr("Zed", <<"5">>, <<"1", "2">>),
      Tr("Zed", <<"5">>, <<"-", "1", "%">>),
      Tr("Zed", <<"5">>, <<"1", "2", ".", "%">>),
      Tr("Zed", <<"5">>, <<"1", ".", "2", ".", "3", "%">>),
      <<<<"1">>, "Alice", <<"1", "0">>, <<"g">>, <<"5", "%">> >> }
Tables == UNION {[1..n -> TableRows] : n \in 0..MaxRows}

\* target_table is None when no heading names the server or no table
\* follows it.
ParseInit ==
    /\ MainOff
    /\ fetcher = Off /\ reporter = Off
    /\ \E t \in {<<>>} \cup {<<rs>> : rs \in Tables} :
          parser = [pc |-> "find", target_table |-> t, i |-> 0,
                    result |-> EmptyMap, raised |-> ""]

ParseFind ==
    /\ parser.pc = "find"
    /\ IF parser.target_table = <<>>
       THEN parser' = [parser EXCEPT !.pc = "raised",
                          !.raised = "Netherworld Tabelle nicht gefunden"]
       ELSE parser' = [parser EXCEPT !.pc = "rows"]
    /\ UNCHANGED <<mainVars, fetcher, reporter>>

Keeps(tds) ==
    /\ ~(Len(tds) < 6)
    /\ tds[2] # ""
    /\ IsInt(tds[3])
    /\ ExpMatch(tds[5])

\* One turn of the loop over the rows, or the return after the last one.
ParseRow ==
    /\ parser.pc = "rows"
    /\ LET rs == parser.target_table[1] IN
       IF parser.i = Len(rs)
       THEN parser' = [parser EXCEPT !.pc = "returned"]
       ELSE LET tds == rs[parser.i + 1] IN
            parser' = [parser EXCEPT
               !.i = @ + 1,
               !.result = IF Keeps(tds)
                          THEN [c \in DOMAIN @ \cup {tds[2]} |->
                                  IF c = tds[2]
                                  THEN CharSnapshot(tds[2], IntVal(tds[3]),
                                                    ExpVal(tds[5]))
                                  ELSE @[c]]
                          ELSE @]
    /\ UNCHANGED <<mainVars, fetcher, reporter>>

ParseNext == ParseFind \/ ParseRow
ParseSpec == ParseInit /\ [][ParseNext]_vars

\* -------------------------------------------------------- report_monthly.py
\* Of a row of runs.csv the reporter uses run_id, started_at (read as a
\* year and a month, or NaT when it is no date), spot, difficulty and
\* party_type; of a row of results_per_char.csv run_id, character and
\* gain_exp_percent (absent when the field is empty).  A run id occurs in
\* more than one row of runs.csv when the tracker recorded a session twice
\* or two sessions started in the same second.
MaxRunRecs == 3
MaxResRows == 2
NaT == <<>>
RunIds == {1, 2}
StartedAts == {<<2025, 1>>, <<2025, 2>>, NaT}
Spots == {"gate", "hall"}
Gains == {<<>>, <<300000>>, <<500000>>}
RunRecs == [run_id : RunIds, started_at : StartedAts, spot : Spots,
            difficulty : {Args.difficulty}, party_type : {Args.party_type}]
ResRows == [run_id : RunIds, character : {Characters[1]}, gain_exp_percent : Gains]
NoCsv == [exists |-> FALSE, rows |-> <<>>]
Csv(rs) == [exists |-> TRUE, rows |-> rs]
RunsFiles == {NoCsv} \cup {Csv(rs) : rs \in UNION {[1..n -> RunRecs] : n \in 0..MaxRunRecs}}
ResultsFiles ==
    {NoCsv} \cup {Csv(rs) : rs \in UNION {[1..n -> ResRows] : n \in 0..MaxResRows}}
\* --year and --month given, or neither; now is the month of the call.
Calls == {[args |-> <<2025, 1>>, now |-> <<2025, 3>>],
          [args |-> <<>>, now |-> <<2025, 1>>]}

prev_month_year(now) ==
    IF now[2] = 1 THEN <<now[1] - 1, 12>> ELSE <<now[1], now[2] - 1>>

month_filter(rs, ym) == SelectSeq(rs, LAMBDA r : r.started_at = ym)

NoDoc == [kind |-> "none"]
NoDataDoc(ym) == [kind |-> "Keine Daten in diesem Monat", month |-> ym]

ReportInit ==
    /\ MainOff
    /\ fetcher = Off /\ parser = Off
    /\ \E rf \in RunsFiles, sf \in ResultsFiles, call \in Calls :
          reporter = [pc |-> "load", RUNS |-> rf, RESULTS |-> sf, call |-> call,
                      runs |-> <<>>, res |-> <<>>, runs_m |-> <<>>, month |-> <<>>, doc |-> NoDoc,
                      raised |-> ""]

\* load_csvs: read_csv raises when a file does not exist.
ReportLoad ==
    /\ reporter.pc = "load"
    /\ IF ~reporter.RUNS.exists \/ ~reporter.RESULTS.exists
       THEN reporter' = [reporter EXCEPT !.pc = "raised",
                            !.raised = "FileNotFoundError"]
       ELSE reporter' = [reporter EXCEPT !.pc = "main",
                            !.runs = reporter.RUNS.rows,
                            !.res = reporter.RESULTS.rows]
    /\ UNCHANGED <<mainVars, fetcher, parser>>

\* main after load_csvs: the early return, the month, the filter and the
\* document of a month without session.
ReportMain ==
    /\ reporter.pc = "main"
    /\ IF reporter.runs = <<>> \/ reporter.res = <<>>
       THEN reporter' = [reporter EXCEPT !.pc = "returned"]
       ELSE LET ym == IF reporter.call.args # <<>> THEN reporter.call.args
                      ELSE prev_month_year(reporter.call.now)
                rm == month_filter(reporter.runs, ym)
            IN  IF rm = <<>>
                THEN reporter' = [reporter EXCEPT !.pc = "returned",
                                     !.month = ym, !.doc = NoDataDoc(ym)]
                ELSE reporter' = [reporter EXCEPT !.pc = "summarize",
                                     !.month = ym, !.runs_m = rm]
    /\ UNCHANGED <<mainVars, fetcher, parser>>

\* res.merge(runs, on="run_id", how="inner"): one joined row for every
\* pair of a result row and a run row with the same run id.
Merge(res, rs) ==
    {<<i, j>> \in (DOMAIN res) \X (DOMAIN rs) : res[i].run_id = rs[j].run_id}
Valid(df, res) == {x \in df : res[x[1]].gain_exp_percent # <<>>}
SpotKey(r) == <<r.spot, r.difficulty, r.party_type>>

RECURSIVE SumGain(_, _)
SumGain(df, res) ==
    IF df = {} THEN 0
    ELSE LET x == CHOOSE x \in df : TRUE
         IN  res[x[1]].gain_exp_percent[1] + SumGain(df \ {x}, res)

\* groupby(...)["gain_exp_percent"].mean(): the mean of a group is kept as
\* the sum and the number of its joined rows.
SpotAvg(res, rs) ==
    LET dv == Valid(Merge(res, rs), res)
        keys == {SpotKey(rs[x[2]]) : x \in dv}
    IN  [k \in keys |->
           LET g == {x \in dv : SpotKey(rs[x[2]]) = k}
           IN  [sum |-> SumGain(g, res), count |-> Cardinality(g)]]

ReportSummarize ==
    /\ reporter.pc = "summarize"
    /\ reporter' = [reporter EXCEPT !.pc = "returned",
                       !.doc = [kind |-> "Monatsreport", month |-> reporter.month,
                                spot_avg |-> SpotAvg(reporter.res,
                                                     reporter.runs_m)]]
    /\ UNCHANGED <<mainVars, fetcher, parser>>

ReportNext == ReportLoad \/ ReportMain \/ ReportSummarize
ReportSpec == ReportInit /\ [][ReportNext]_vars

\* ----------------------------------------------------------------- claims
InSession(p) == acquired[p] /\ ~unlinked[p]
ValidMarker(file) == file.exists /\ Len(file.parts) > 1 /\ file.parts[2].iso
Age(p, file) == started[p] - file.parts[2].val
OwnMarker(p) == LockFile(MarkerContent(run_id_from_start(started[p]), started[p]))
Indices(log, p) == {i \in DOMAIN log : log[i].by = p}
Untouched(p) ==
    /\ Indices(runs, p) = {} /\ Indices(results, p) = {} /\ Indices(errors, p) = {}
    /\ gets[p] = 0

\* C1: at most one invocation at a time is between the write of its lock
\* marker and its cleanup phase.
MutualExclusion == Cardinality({p \in Procs : InSession(p)}) <= 1

\* C2: every invocation that acquired the lock eventually runs the cleanup
\* phase, however the session concluded; a failing deletion of the marker
\* is swallowed and changes neither the exit status nor the logs.
CleanupAlwaysRuns ==
    /\ \A p \in Procs : acquired[p] ~> (pc[p] = "done" /\ unlinked[p])
    /\ [][\A p \in Procs :
             pc[p] = "cleanup" /\ pc'[p] # "cleanup"
             => /\ pc'[p] = "done"
                /\ exit'[p] = exit[p] /\ outcome'[p] = outcome[p]
                /\ UNCHANGED logVars]_vars

\* C2 witness: the persistence failed, the append of the failure record
\* failed too, the cleanup ran and its deletion failed.
CleanupAfterEveryFailure ==
    \E p \in Procs :
       /\ pc[p] = "done" /\ unlinked[p] /\ err[p] = "IOError"
       /\ rows[p] # <<>> /\ Indices(runs, p) = {}
       /\ lock = OwnMarker(p)

\* C3: an invocation that reads a marker younger than 90 minutes exits
\* with "already running": it has appended nothing to any log, fetched
\* nothing, and the marker is as it was.
FreshLockRefuses ==
    [][\A p \in Procs :
          (/\ pc[p] = "lockRead" /\ pc'[p] # "lockRead"
           /\ ValidMarker(lock) /\ Age(p, lock) < StaleMinutes * 60)
          => /\ pc'[p] = "done" /\ exit'[p] = 1
             /\ outcome'[p] = "AlreadyRunning"
             /\ ~acquired'[p]
             /\ lock' = lock
             /\ UNCHANGED logVars
             /\ Untouched(p)']_vars

\* C3 witness: an invocation was refused by a valid marker 60 minutes old.
RefusedByFreshMarker ==
    \E p \in Procs :
       /\ outcome[p] = "AlreadyRunning" /\ pc[p] = "done"
       /\ ValidMarker(seen[p]) /\ Age(p, seen[p]) = 3600
       /\ lock = seen[p]

\* C4: an invocation that reads a marker at least 90 minutes old goes on
\* to write the marker, and the marker it writes holds its own run id and
\* start timestamp; the session then proceeds to the first sample.
StaleLockOverwritten ==
    [][\A p \in Procs :
          /\ (/\ pc[p] = "lockRead" /\ pc'[p] # "lockRead"
               /\ ValidMarker(lock) /\ Age(p, lock) >= StaleMinutes * 60)
              => pc'[p] = "lockWrite" /\ exit'[p] = -1
          /\ (pc[p] = "lockWrite" /\ pc'[p] # "lockWrite")
              => /\ pc'[p] = "sample0" /\ acquired'[p]
                 /\ lock'.exists /\ Len(lock'.parts) = 2
                 /\ lock'.parts[1].val = run_id_from_start(started[p])
                 /\ lock'.parts[2] = Part(TRUE, started[p])]_vars

\* C4 witness: a marker exactly 90 minutes old was read and overwritten.
StaleMarkerReplaced ==
    \E p \in Procs :
       /\ acquired[p] /\ pc[p] = "sample0"
       /\ ValidMarker(seen[p]) /\ Age(p, seen[p]) = StaleMinutes * 60
       /\ lock = OwnMarker(p) /\ lock # seen[p]

\* C5: an invocation that reads a malformed marker (empty, without "|",
\* or with an unparsable timestamp) is never refused: it goes on to write
\* the marker.
MalformedMarkerIsStale ==
    [][\A p \in Procs :
          (/\ pc[p] = "lockRead" /\ pc'[p] # "lockRead"
           /\ lock.exists /\ ~ValidMarker(lock))
          => pc'[p] = "lockWrite"]_vars

ErrCount(p, c) == Cardinality({i \in Indices(errors, p) : errors[i].row[3][1] = c})
Reconciled(p) == rows[p] # <<>>
Missing(snap, c) == IF c \in DOMAIN snap THEN 0 ELSE 1

\* C6: an invocation that acquired the lock and ran to its end has
\* appended exactly one SessionRecord, and it carries its run id.
OneSessionRecord ==
    \A p \in Procs :
       pc[p] = "done" /\ acquired[p]
       => /\ Cardinality(Indices(runs, p)) = 1
          /\ \A i \in Indices(runs, p) :
                runs[i].row[1] = run_id_from_start(started[p])

\* C7: a session in which a failure was raised ends with exactly one
\* SessionRecord whose note embeds the error, with no ResultRow of its
\* own in the result log, and with the failure signalled by status 2.
FailurePersisted ==
    \A p \in Procs :
       pc[p] = "done" /\ err[p] # ""
       => /\ Cardinality(Indices(runs, p)) = 1
          /\ \A i \in Indices(runs, p) : runs[i].row[9] = <<"Fehler ", err[p]>>
          /\ Indices(results, p) = {}
          /\ exit[p] = 2

\* C8: in every appended ResultRow the gain is present exactly if the
\* character was in the start snapshot and in the end snapshot; the level
\* and experience fields of a side are empty if the character was missing
\* on that side and hold that snapshot's level and (rendered) experience
\* if it was there.
ResultRowOptionality ==
    \A i \in DOMAIN results :
       LET p == results[i].by
           r == results[i].row
           c == r[3]
           in0 == c \in DOMAIN snap0[p]
           in1 == c \in DOMAIN snap1[p]
       IN /\ r[1] = run_id_from_start(started[p])
          /\ (r[8] # <<>>) <=> (in0 /\ in1)
          /\ IF in0 THEN r[4] = <<snap0[p][c].level>> /\ r[5] = fmt(<<snap0[p][c].exp_pct>>)
                    ELSE r[4] = <<>> /\ r[5] = <<>>
          /\ IF in1 THEN r[6] = <<snap1[p][c].level>> /\ r[7] = fmt(<<snap1[p][c].exp_pct>>)
                    ELSE r[6] = <<>> /\ r[7] = <<>>

\* C8 witness: a row of a character missing at the first sample only was
\* appended next to a row of a character present in both.
RowWithMissingStart ==
    \E i, j \in DOMAIN results :
       /\ results[i].by = results[j].by
       /\ results[i].row[4] = <<>> /\ results[i].row[5] = <<>>
       /\ results[i].row[6] # <<>> /\ results[i].row[8] = <<>>
       /\ results[j].row[8] # <<>>

\* C9: for a character in both snapshots the gain of its row is the end
\* experience minus the start experience, signed and unclamped; the
\* result log holds its rendering; the session appended no ErrorEvent for
\* the character, and only a failure of the file system ends a reconciled
\* session as a failure.
GainIsSignedDifference ==
    \A p \in Procs : \A k \in DOMAIN rows[p] :
       LET c == rows[p][k][1] IN
       (c \in DOMAIN snap0[p] /\ c \in DOMAIN snap1[p])
       => LET d == snap1[p][c].exp_pct - snap0[p][c].exp_pct IN
          /\ rows[p][k][6] = <<d>>
          /\ \A i \in Indices(results, p) :
                results[i].row[3] = c => results[i].row[8] = <<Round4(d)>>
          /\ ErrCount(p, c) = 0
          /\ err[p] \in {"", "IOError"}

\* C9 witness: a session ended with status 0 and its result log holds a
\* negative gain.
NegativeGainStored ==
    \E p \in Procs :
       /\ pc[p] = "done" /\ exit[p] = 0
       /\ \E i \in Indices(results, p) :
             results[i].row[8] # <<>> /\ results[i].row[8][1] < 0

\* C10 as stated: in a session that completed both samples the number of
\* ErrorEvents of a character is the number of sides on which it was
\* missing.
OneErrorPerMissingSide ==
    \A p \in Procs : Reconciled(p) =>
       \A c \in Range(Characters) :
          ErrCount(p, c) = Missing(snap0[p], c) + Missing(snap1[p], c)

\* C10 amended: a character missing at the first sample has two
\* ErrorEvents for that side (one at the first sample, one when the rows
\* are built), a character missing at the second sample one.
ErrorEventsPerCharacter ==
    \A p \in Procs : Reconciled(p) =>
       \A c \in Range(Characters) :
          ErrCount(p, c) = 2 * Missing(snap0[p], c) + Missing(snap1[p], c)

\* C10 witness: one character was missing at the first sample only, the
\* other at both.
MissingOnceAndTwice ==
    \E p \in Procs : \E c, d \in Range(Characters) :
       /\ Reconciled(p)
       /\ Missing(snap0[p], c) = 1 /\ Missing(snap1[p], c) = 0 /\ ErrCount(p, c) = 2
       /\ Missing(snap0[p], d) = 1 /\ Missing(snap1[p], d) = 1 /\ ErrCount(p, d) = 3

\* The header ensure_files gives errors.csv (line 68).
ErrorsHeader == <<"run_id", "character", "timestamp", "error_message">>

Sampled(p) == snap0[p] # EmptyMap /\ snap1[p] # EmptyMap

\* C11: an invocation that aborts before its session (a configuration or
\* validation error, or a fresh lock of another session) leaves the three
\* logs and the lock marker as they were: no log is created or appended to.
PreSessionAbortLeavesLogs ==
    [][\A p \in Procs :
          (/\ pc[p] \in {"idle", "lockRead"} /\ pc'[p] = "done")
          => UNCHANGED <<initialised, logVars, lock>>]_vars

\* C13: the exit status is 0 exactly for a successful session, 1 exactly
\* for a refusal by an active session, and 2 for every other failure.
ExitCodeIdentifiesOutcome ==
    \A p \in Procs :
       pc[p] = "done"
       => /\ exit[p] = 0 <=> outcome[p] = "Lauf abgeschlossen"
          /\ exit[p] = 1 <=> outcome[p] = "AlreadyRunning"
          /\ outcome[p] \notin {"Lauf abgeschlossen", "AlreadyRunning"} => exit[p] = 2

\* C16: a session whose two fetch and parse steps succeeded ends as a
\* success, whichever characters were missing: one ResultRow for each
\* tracked character and one SessionRecord with the caller's note.
AbsenceNeverAborts ==
    \A p \in Procs :
       pc[p] = "done" /\ Sampled(p)
       => /\ exit[p] = 0 /\ err[p] = ""
          /\ \A c \in Range(Characters) :
                Cardinality({i \in Indices(results, p) : results[i].row[3] = c}) = 1
          /\ Cardinality(Indices(results, p)) = Len(Characters)
          /\ Cardinality(Indices(runs, p)) = 1
          /\ \A i \in Indices(runs, p) : runs[i].row[9] = <<Args.note>>

\* C19: every row of the error log has the four fields of its header, in
\* the header's order: run id, character, timestamp, message.
ErrorRowMatchesHeader ==
    \A i \in DOMAIN errors :
       LET r == errors[i].row IN
       /\ Len(r) = Len(ErrorsHeader)
       /\ r[1] = run_id_from_start(started[errors[i].by])
       /\ r[2] \in Range(Characters)

\* C20: the marker a finishing session deletes is its own.
OnlyOwnMarkerRemoved ==
    [][\A p \in Procs :
          (pc[p] = "cleanup" /\ pc'[p] = "done" /\ lock.exists /\ ~lock'.exists)
          => lock = OwnMarker(p)]_vars

RECURSIVE SumSeq(_)
SumSeq(q) == IF q = <<>> THEN 0 ELSE Head(q) + SumSeq(Tail(q))
Min(a, b) == IF a <= b THEN a ELSE b

BackoffSchedule ==
    fetcher.retries >= 1
    => /\ \A i \in DOMAIN fetcher.slept :
             /\ i < fetcher.retries /\ i <= Len(fetcher.failed)
             /\ fetcher.slept[i] = i * fetcher.backoff_seconds
       /\ fetcher.pc \in {"returned", "raised"}
          => Len(fetcher.slept) = Min(Len(fetcher.failed), fetcher.retries - 1)
       /\ fetcher.pc = "get" => Len(fetcher.slept) = Len(fetcher.failed)
       /\ fetcher.pc = "raised"
          => 2 * SumSeq(fetcher.slept)
             = fetcher.backoff_seconds * (fetcher.retries - 1) * fetcher.retries

\* Three failed attempts with the default base delay: 3 + 6 seconds.
BackoffExhausted ==
    /\ fetcher.pc = "raised" /\ fetcher.retries = DefaultRetries
    /\ fetcher.backoff_seconds = DefaultBackoff
    /\ fetcher.slept = <<DefaultBackoff, 2 * DefaultBackoff>>

\* C18: every CharacterSnapshot the parser returns has a level of at least
\* 1 and an experience percent in [0, 100): a row with level 0 or below, or
\* with 100 % or more, never produces an entry.
ParsedSnapshotsInRange ==
    \A c \in DOMAIN parser.result :
       /\ parser.result[c].level >= 1
       /\ parser.result[c].exp_pct >= 0
       /\ parser.result[c].exp_pct < 100 * 100000

\* The month the call is about, and the session records of that month.
TargetMonth ==
    IF reporter.call.args # <<>> THEN reporter.call.args
    ELSE prev_month_year(reporter.call.now)
InMonth ==
    {j \in DOMAIN reporter.RUNS.rows : reporter.RUNS.rows[j].started_at = TargetMonth}
ReportEnded == reporter.pc \in {"returned", "raised"}

\* C14: for a month without any matching SessionRecord, also when the
\* session log or the result log holds no rows, the reporter writes the
\* "no data" document and does not raise.
EmptyMonthGivesNoDataDocument ==
    ReportEnded /\ InMonth = {} /\ reporter.RUNS.exists /\ reporter.RESULTS.exists
    => /\ reporter.pc = "returned"
       /\ reporter.doc = NoDataDoc(TargetMonth)

\* The result rows with a gain whose run id is the id of a session record
\* of the month in group k.
RowsOfGroup(k) ==
    {i \in DOMAIN reporter.RESULTS.rows :
        /\ reporter.RESULTS.rows[i].gain_exp_percent # <<>>
        /\ \E j \in InMonth :
              /\ reporter.RUNS.rows[j].run_id = reporter.RESULTS.rows[i].run_id
              /\ SpotKey(reporter.RUNS.rows[j]) = k}
RECURSIVE SumRows(_)
SumRows(R) ==
    IF R = {} THEN 0
    ELSE LET i == CHOOSE i \in R : TRUE
         IN  reporter.RESULTS.rows[i].gain_exp_percent[1] + SumRows(R \ {i})

\* C15: the mean gain the report gives for a (spot, difficulty, party type)
\* group is the arithmetic mean over exactly the result rows with a gain
\* whose run id matches a session record of that group in the month; a
\* group without such a row is not in the table.
SpotMeanOverMatchingRows ==
    reporter.doc.kind = "Monatsreport"
    => /\ DOMAIN reporter.doc.spot_avg
          = {k \in {SpotKey(reporter.RUNS.rows[j]) : j \in InMonth} : RowsOfGroup(k) # {}}
       /\ \A k \in DOMAIN reporter.doc.spot_avg :
             reporter.doc.spot_avg[k].sum * Cardinality(RowsOfGroup(k))
             = SumRows(RowsOfGroup(k)) * reporter.doc.spot_avg[k].count
====
